---- MODULE Spec2Model ----
(***************************************************************************)
(* The HyperSDK program simulator: the simulation drivers that run a plan  *)
(* (or run file) step by step against the state store, and the helpers     *)
(* they call.  The source tree holds three generations of the driver:      *)
(*   "plan"   runCmd.Run            x/programs/cmd/simulator/cmd/plan.go    *)
(*   "steps"  runSteps              x/programs/cmd/simulator/cmd/program.go *)
(*   "legacy" runCmdFunc            unnamed/part_003                        *)
(* and a unit test of validateAssertion ("unit", config_test.go).  The      *)
(* variable driver says which of them a behaviour runs.  A second          *)
(* specification, RuntimeSpec, runs the harness of the runtime's memory    *)
(* tests ("runtime", x/programs/runtime/memory_test.go) against one        *)
(* runtime: its configuration, linear memory and fuel meter.               *)
(***************************************************************************)
EXTENDS Integers, Sequences, FiniteSets, TLC

\* ---------------------------------------------------------------- bounds
MaxSteps == 3       \* steps of a plan
MaxVal == 1         \* state values, results and operands range over 0..MaxVal
MaxUnits == 1       \* max fee (meterMaxUnits) ranges over 0..MaxUnits

\* ------------------------------------------------------------- constants
Empty == 0          \* ids.Empty, the zero ID
programPrefix == 0
keyPrefix == 1
statePrefix == 2    \* keys the state import writes for a program
NotFound == -1      \* database.ErrNotFound: the key has no value
NoChange == -2      \* the pending-writes buffer holds nothing for the key

VARIABLES
    driver,      \* which driver runs: "plan", "steps", "legacy", "unit",
                 \* or "runtime" under RuntimeSpec, "params" under ParamsSpec,
                 \* "nest" under NestSpec
    committed,   \* the Merkle store: key -> value or NotFound
    pending,     \* state.SimpleMutable's pending writes: key -> value or NoChange
    programMap,  \* runCmd.programMap: step index -> program ID
    parentID,    \* the package variable parentID (programID in part_003)
    rng,         \* number of IDs generateRandomID has drawn
    pc,          \* index of the next step of the plan
    status,      \* "running", "done" (the loop ended), "failed" (a step
                 \* ended the run with an error), "panic"
    last,        \* what the most recent step did (observation only)
    hist,        \* kind and error of every step executed (observation only)
    rt,          \* the runtime under test of the "runtime" driver, its
                 \* configuration, memory and meter; under NestSpec the
                 \* runtime whose guest is running and its callers
    twin         \* under TwinSpec: the first of two runs of one plan, as the
                 \* second run needs it (its inputs, responses, final store)

vars == <<driver, committed, pending, programMap, parentID, rng, pc, status, last, hist, rt, twin>>

\* ------------------------------------------------------------ the store
IDs == 0..(MaxSteps + 1)
Names == {1}         \* the key names a plan uses
StateKeys == {1}     \* the program-scoped keys the state import writes
StateVals == 0..MaxVal
Files == {1, 2}     \* contents of the two wasm files a plan can name

programKey(id) == <<programPrefix, id>>
nameKey(name) == <<keyPrefix, name>>
stateKey(k) == <<statePrefix, k>>

Keys == {programKey(id) : id \in IDs} \cup {nameKey(n) : n \in Names}
            \cup {stateKey(k) : k \in StateKeys}

NoPending == [k \in Keys |-> NoChange]

\* SimpleMutable.GetValue: the pending writes first, then the store.
GetValue(p, c, k) == IF p[k] # NoChange THEN p[k] ELSE c[k]

\* SimpleMutable.Insert: the write lands in the pending buffer.
Insert(p, k, v) == [p EXCEPT ![k] = v]

\* SimpleMutable.Commit: the store after the pending writes are applied
\* (the buffer is cleared by the caller's pending' = NoPending).
Commit(p, c) == [k \in Keys |-> IF p[k] # NoChange THEN p[k] ELSE c[k]]

\* [programID] -> [programBytes]
getProgram(p, c, id) == GetValue(p, c, programKey(id))
setProgram(p, id, bytes) == Insert(p, programKey(id), bytes)

\* generateRandomID: a fresh, non-zero 32-byte ID.
generateRandomID(n) == n + 1

\* os.ReadFile of a step's program path: 0 is a path that cannot be read.
Paths == {0} \cup Files
ReadFileOk(path) == path \in Files

\* ----------------------------------------------------------- assertions
Operators == {">", "<", ">=", "<=", "==", "!="}
NoAssertion == [Operator |-> "", Operand |-> 0]      \* Assertion{}
Assertions == [Operator : Operators \cup {""}, Operand : 0..MaxVal]

\* What `actual operator operand` means.
Holds(actual, a) ==
    CASE a.Operator = ">"  -> actual > a.Operand
      [] a.Operator = "<"  -> actual < a.Operand
      [] a.Operator = ">=" -> actual >= a.Operand
      [] a.Operator = "<=" -> actual <= a.Operand
      [] a.Operator = "==" -> actual = a.Operand
      [] a.Operator = "!=" -> actual # a.Operand
      [] OTHER -> FALSE

\* validateAssertion of cmd/config.go: six operators.
validateAssertion(actual, a) ==
    CASE a.Operator = ">"  -> actual > a.Operand
      [] a.Operator = "<"  -> actual < a.Operand
      [] a.Operator = ">=" -> actual >= a.Operand
      [] a.Operator = "<=" -> actual <= a.Operand
      [] a.Operator = "==" -> actual = a.Operand
      [] a.Operator = "!=" -> actual # a.Operand
      [] OTHER -> FALSE

\* validateAssertion of cmd/program.go: the switch has no NotEqualTo case.
validateAssertionSteps(actual, a) ==
    CASE a.Operator = ">"  -> actual > a.Operand
      [] a.Operator = "<"  -> actual < a.Operand
      [] a.Operator = ">=" -> actual >= a.Operand
      [] a.Operator = "<=" -> actual <= a.Operand
      [] a.Operator = "==" -> actual = a.Operand
      [] OTHER -> FALSE

\* ------------------------------------------------- the guest program call
\* What was written through the state import during a call, by the guest
\* or by a program it called: state key -> value.
Writes == [StateKeys -> StateVals \cup {NoChange}]
NoWrites == [k \in StateKeys |-> NoChange]

\* The pending buffer after the guest's writes.
ApplyWrites(p, w) ==
    [k \in Keys |-> IF k[1] = statePrefix /\ w[k[2]] # NoChange THEN w[k[2]] ELSE p[k]]

\* The program import: the writes of a nested program-to-program call land
\* in the pending buffer of the caller, and the import does not commit.
programImportWrites(p, w) == ApplyWrites(p, w)

\* The pending buffer after a call: its writes are the guest's own or, when
\* the guest re-entered another program, the nested call's.
CallWrites(p, out) ==
    IF out.nested THEN programImportWrites(p, out.writes) ELSE ApplyWrites(p, out.writes)

\* What the runtime can do with a call: Initialize fails, createParams fails,
\* the call traps after some writes, or it returns a list of values and
\* leaves a fuel balance of at most the max fee.
Resps == {<<>>} \cup {<<v>> : v \in 0..MaxVal}
Outcomes(fee) ==
    {[kind |-> "init", writes |-> NoWrites, nested |-> FALSE, resp |-> <<>>, balance |-> 0]}
    \cup {[kind |-> "params", writes |-> NoWrites, nested |-> FALSE, resp |-> <<>>, balance |-> 0]}
    \cup {o \in [kind : {"trap"}, writes : Writes, nested : BOOLEAN, resp : {<<>>},
                 balance : {0}] : o.nested => o.writes # NoWrites}
    \cup {o \in [kind : {"ok"}, writes : Writes, nested : BOOLEAN, resp : Resps,
                 balance : 0..fee] : o.nested => o.writes # NoWrites}
\* ... for any max fee a step can name.
AllOutcomes == UNION {Outcomes(fee) : fee \in 0..MaxUnits}

\* Step.Require holds two assertions, Result and Balance, each ranging over
\* Assertions.  An assertion that is set is violated when it does not hold of
\* the value it is about.
AssertionViolated(v, a) == a # NoAssertion /\ ~Holds(v, a)

\* --------------------------------------------------------- observations
NoRef == [kind |-> "none", n |-> 0]
\* What a step of a plan is given: the fields of the step in the plan
\* file, the file its path names, whether the key draw succeeds and what
\* the guest called does.
NoOut ==
    [kind |-> "none", writes |-> NoWrites, nested |-> FALSE, empty |-> FALSE,
     verdictErr |-> "", violated |-> FALSE]
NoInput ==
    [kind |-> "", endpoint |-> "", name |-> 0, genOk |-> FALSE, path |-> 0,
     shape |-> "", ref |-> NoRef, out |-> NoOut]

NoStep ==
    [idx |-> -1, kind |-> "none", endpoint |-> "", err |-> "", dup |-> FALSE,
     name |-> 0, keyErr |-> "", shape |-> "",
     doc |-> [json |-> "none", yaml |-> "none", jsonFits |-> FALSE,
              yamlFits |-> FALSE, shape |-> "none"],
     format |-> "", outcome |-> "none", writes |-> NoWrites, nested |-> FALSE,
     ref |-> NoRef, programID |-> Empty, storedAt |-> Empty, bytes |-> 0,
     violated |-> FALSE, rtMade |-> FALSE, rtStopped |-> FALSE,
     actual |-> 0, assertion |-> NoAssertion, result |-> FALSE, input |-> NoInput]

Obs(kind, endpoint, err) ==
    [NoStep EXCEPT !.idx = pc, !.kind = kind, !.endpoint = endpoint, !.err = err]

\* The Response a step of runCmd.Run fills in: the step's index, the error
\* text and the Result (the ID of a created program, the message of a key
\* step, whether the call returned).
Response(obs) ==
    [ID |-> obs.idx, Error |-> obs.err,
     Result |-> [ID |-> IF obs.kind = "create" THEN obs.programID ELSE Empty,
                 Msg |-> IF obs.kind = "key" THEN obs.name ELSE 0,
                 Outcome |-> obs.outcome]]

\* Two runs of one plan, one after the other.  While the first runs the
\* inputs and responses of its steps are kept; the second is given, step
\* by step, the inputs of the first.  Outside TwinSpec nothing is kept.
MaxTwinSteps == 2   \* steps of a plan that is run twice
NoTwin ==
    [phase |-> "off", start |-> <<>>, inputs |-> <<>>, resps |-> <<>>,
     final |-> <<>>, status |-> "", keyOffset |-> 0]
Replay(obs) ==
    CASE twin.phase = "first" ->
            /\ pc < MaxTwinSteps
            /\ twin' = [twin EXCEPT !.inputs = Append(@, obs.input),
                                    !.resps = Append(@, Response(obs))]
      [] twin.phase = "second" ->
            /\ pc < Len(twin.inputs)
            /\ obs.input = twin.inputs[pc + 1]
            /\ UNCHANGED twin
      [] OTHER -> UNCHANGED twin

\* The effect of one iteration of a driver's loop: the store, the buffer
\* and whether the loop goes on (err = "") or the run halts.
StepEffect(c, p, obs, halt) ==
    /\ Replay(obs)
    /\ committed' = c
    /\ pending' = p
    /\ last' = obs
    /\ hist' = Append(hist, [idx |-> obs.idx, kind |-> obs.kind, err |-> obs.err,
                              id |-> obs.storedAt])
    /\ pc' = pc + 1
    /\ status' = halt

\* A handler's error is returned by the driver, which ends the run.
ContinueAlways(err) == "running"
Continue(err) == IF err = "" THEN "running" ELSE "failed"

\* ----------------------------------------------------------------- keys
\* ed25519.GeneratePrivateKey: the key drawn at step n; two draws differ.
GeneratePrivateKey(n) == n + 1
getPublicKey(p, c, name) == GetValue(p, c, nameKey(name))
setKey(p, priv, name) == Insert(p, nameKey(name), priv)

\* newKey (key.go): a failed draw ends it first; a name that exists is
\* ErrDuplicateKeyName and nothing is written; otherwise the key is inserted
\* and the buffer committed.
newKeyDuplicate(p, c, name) == getPublicKey(p, c, name) # NotFound
newKeyErr(p, c, name, genOk) ==
    IF ~genOk THEN "ErrGenerateKey"
    ELSE IF newKeyDuplicate(p, c, name) THEN "ErrDuplicateKeyName"
    ELSE ""
newKeyOverwrite(p, c, priv, name, genOk) ==
    IF ~genOk THEN c ELSE Commit(setKey(p, priv, name), c)
newKeyCommitted(p, c, priv, name, genOk) ==
    IF newKeyErr(p, c, name, genOk) # "" THEN c ELSE Commit(setKey(p, priv, name), c)
newKeyPending(p, c, name, genOk) ==
    IF newKeyErr(p, c, name, genOk) # "" THEN p ELSE NoPending

\* The key step of both drivers: ErrDuplicateKeyName is logged and the step
\* goes on as a success, any other error of newKey ends the run.
keyStepErrAll(err) == err
keyStepErr(err) == IF err = "ErrDuplicateKeyName" THEN "" ELSE err

\* -------------------------------------------- the "steps" driver (runSteps)
\* Step.ProgramID of a call step: "inherit", the text of an ID, or text that
\* is no ID.
PlanIDs == {Empty, 1}
StepRefs == {[kind |-> "inherit", n |-> 0], [kind |-> "bad", n |-> 0]}
                \cup [kind : {"id"}, n : PlanIDs]

\* ids.FromString
FromStringOk(ref) == ref.kind = "id"

\* case "create_key"
runStepsCreateKey ==
    /\ driver = "steps" /\ status = "running" /\ pc < MaxSteps
    /\ \E name \in {0} \cup Names :
        IF name = 0
        THEN StepEffect(committed, pending, Obs("key", "", "ErrKeyNameRequired"), "failed")
        ELSE \E genOk \in BOOLEAN :
             LET err == keyStepErr(newKeyErr(pending, committed, name, genOk)) IN
             StepEffect(newKeyCommitted(pending, committed, GeneratePrivateKey(pc), name, genOk),
                        newKeyPending(pending, committed, name, genOk),
                        [Obs("key", "", err) EXCEPT
                            !.name = name,
                            !.keyErr = newKeyErr(pending, committed, name, genOk),
                            !.dup = newKeyDuplicate(pending, committed, name)],
                        Continue(err))
    /\ UNCHANGED <<driver, rt, programMap, parentID, rng>>

\* deployProgram (program.go): the bytes are inserted at a fresh ID.
deployProgram(p, id, bytes) == setProgram(p, id, bytes)

\* case "deploy": parentID, err = deployProgram(...)
runStepsDeploy ==
    /\ driver = "steps" /\ status = "running" /\ pc < MaxSteps
    /\ \E path \in {-1} \cup Paths :
        IF path = -1
        THEN /\ StepEffect(committed, pending, Obs("create", "", "ErrProgramPathRequired"), "failed")
             /\ UNCHANGED <<parentID, rng>>
        ELSE IF ~ReadFileOk(path)
        THEN /\ StepEffect(committed, pending, Obs("create", "", "ErrReadFile"), "failed")
             /\ parentID' = Empty
             /\ UNCHANGED rng
        ELSE LET id == generateRandomID(rng) IN
             /\ StepEffect(committed, deployProgram(pending, id, path),
                           [Obs("create", "", "") EXCEPT
                                !.programID = id, !.storedAt = id, !.bytes = path],
                           "running")
             /\ parentID' = id
             /\ rng' = rng + 1
    /\ UNCHANGED <<driver, rt, programMap>>

\* callProgram (program.go) up to the lookup of the program: the ID the step
\* names and the error, if any, that ends the call before the runtime is made.
callProgramIDOfStep(ref) == ref.n
callProgramID(ref) == IF ref.kind = "inherit" THEN parentID ELSE ref.n
callProgramLookupErr(ref) ==
    IF ref.kind # "inherit" /\ ~FromStringOk(ref) THEN "ErrParseID"
    ELSE IF getProgram(pending, committed, callProgramID(ref)) = NotFound
         THEN "ErrProgramNotFound"
         ELSE ""

\* The error of a call whose program was found.
callErr(out) ==
    CASE out.kind = "init" -> "ErrInitialize"
      [] out.kind = "params" -> "ErrCreateParams"
      [] out.kind = "trap" -> "ErrTrap"
      [] OTHER -> ""

\* The assertions of runSteps' case "call": an assertion that is set and
\* that validateAssertion rejects fails the step, the result's first.
assertionFails(v, a) == a # NoAssertion /\ ~validateAssertionSteps(v, a)
requireErr(resultFails, balanceFails) ==
    IF resultFails THEN "ErrResultAssertionFailed"
    ELSE IF balanceFails THEN "ErrBalanceAssertionFailed"
    ELSE ""

\* For every Require a step can carry (a Result and a Balance assertion):
\* the error the assertions of runSteps end with, and whether the
\* requirement is violated.
AssertionVerdicts(v) ==
    {[fails |-> assertionFails(v, a), violated |-> AssertionViolated(v, a)] : a \in Assertions}
RequireVerdicts(resp, balance) ==
    {[err |-> requireErr(x.fails, y.fails), violated |-> x.violated \/ y.violated] :
        x \in AssertionVerdicts(resp), y \in AssertionVerdicts(balance)}

\* What a step sees of a call: the outcome's kind and writes, whether the
\* result list is empty, and a verdict of the step's Require on resp[0] and
\* the balance.
NoVerdict == [err |-> "", violated |-> FALSE]
OutcomeVerdicts(out) ==
    IF out.kind = "ok" /\ out.resp # <<>>
    THEN RequireVerdicts(out.resp[1], out.balance)
    ELSE {NoVerdict}
CallResults ==
    UNION {{[kind |-> out.kind, writes |-> out.writes, nested |-> out.nested,
             empty |-> (out.resp = <<>>), verdictErr |-> v.err, violated |-> v.violated] :
                v \in OutcomeVerdicts(out)} : out \in AllOutcomes}
\* ... without the verdict's error, which plan.go does not compute,
PlanCallResults == {[res EXCEPT !.verdictErr = ""] : res \in CallResults}
\* ... and without the result list, which part_003 does not read.
LegacyCallResults ==
    {[res EXCEPT !.verdictErr = "", !.violated = FALSE, !.empty = FALSE] : res \in CallResults}

\* callProgram's db.Commit after a successful rt.Call: the store it leaves.
callProgramNoCommit(p, c) == c
callProgramCommit(p, c) == Commit(p, c)

\* case "call": callProgram, then the step's assertions.
runStepsCall ==
    /\ driver = "steps" /\ status = "running" /\ pc < MaxSteps
    /\ \E ref \in StepRefs :
        LET lerr == callProgramLookupErr(ref) IN
        IF lerr # ""
        THEN /\ StepEffect(committed, pending,
                           [Obs("call", "execute", lerr) EXCEPT !.ref = ref], "failed")
             /\ UNCHANGED rng
        ELSE \E out \in CallResults :
             LET p1 == CallWrites(pending, out)
                 obs == [Obs("call", "execute", callErr(out)) EXCEPT
                            !.outcome = out.kind,
                            !.writes = out.writes, !.nested = out.nested,
                            !.ref = ref,
                            !.programID = callProgramID(ref),
                            \* rt := runtime.New(..); defer rt.Stop()
                            !.rtMade = TRUE, !.rtStopped = TRUE]
             IN
             /\ rng' = rng + 1
             /\ IF out.kind # "ok"
                THEN \* every error returns before db.Commit
                     StepEffect(committed, p1, obs, "failed")
                ELSE IF out.empty
                THEN \* resp[0] on an empty result list
                     StepEffect(callProgramCommit(p1, committed), NoPending,
                                [obs EXCEPT !.err = "panic"], "panic")
                ELSE StepEffect(callProgramCommit(p1, committed), NoPending,
                                [obs EXCEPT !.err = out.verdictErr, !.violated = out.violated],
                                Continue(out.verdictErr))
    /\ UNCHANGED <<driver, rt, programMap, parentID>>

\* default: ErrInvalidStep
runStepsInvalid ==
    /\ driver = "steps" /\ status = "running" /\ pc < MaxSteps
    /\ StepEffect(committed, pending, Obs("invalid", "", "ErrInvalidStep"), "failed")
    /\ UNCHANGED <<driver, rt, programMap, parentID, rng>>

\* The loop ends: the run returns nil.
runStepsReturn ==
    /\ driver = "steps" /\ status = "running"
    /\ status' = "done"
    /\ UNCHANGED <<twin, driver, rt, committed, pending, programMap, parentID, rng, pc, last, hist>>

\* ------------------------------------------- the "plan" driver (runCmd.Run)
Endpoints == {"execute", "readonly"}

\* params[0] of a program call: a step_N token, the text of an ID, or text
\* that is neither.
PlanRefs == [kind : {"step"}, n : 0..(MaxSteps - 1)] \cup [kind : {"id"}, n : PlanIDs]
                \cup {[kind |-> "bad", n |-> 0]}

\* r.programMap[idStr]: a Go map yields the zero ID for a key it does not hold.
mapLookup(map, ref) ==
    IF ref.kind = "step" /\ ref.n \in DOMAIN map THEN map[ref.n] ELSE Empty

\* getProgramID: the map first, then ids.FromString.
getProgramIDNoMap(map, ref) == IF FromStringOk(ref) THEN ref.n ELSE Empty
getProgramID(map, ref) ==
    IF mapLookup(map, ref) # Empty THEN mapLookup(map, ref)
    ELSE IF FromStringOk(ref) THEN ref.n ELSE Empty
getProgramIDErr(map, ref) ==
    IF mapLookup(map, ref) # Empty THEN ""
    ELSE IF FromStringOk(ref) THEN "" ELSE "ErrParseID"

\* case KeyEndpoint
runKey ==
    /\ driver = "plan" /\ status = "running" /\ pc < MaxSteps
    /\ \E name \in {-1} \cup Names :
        IF name = -1
        THEN \* params[0] is not a string
             StepEffect(committed, pending,
                        [Obs("key", "key", "ErrFailedParamTypeCast") EXCEPT
                            !.input = [NoInput EXCEPT !.kind = "key", !.name = name]],
                        "failed")
        ELSE \E genOk \in BOOLEAN :
             LET err == keyStepErr(newKeyErr(pending, committed, name, genOk)) IN
             StepEffect(newKeyCommitted(pending, committed, GeneratePrivateKey(pc + twin.keyOffset),
                                        name, genOk),
                        newKeyPending(pending, committed, name, genOk),
                        [Obs("key", "key", err) EXCEPT
                            !.input = [NoInput EXCEPT !.kind = "key", !.name = name,
                                                      !.genOk = genOk],
                            !.name = name,
                            !.keyErr = newKeyErr(pending, committed, name, genOk),
                            !.dup = newKeyDuplicate(pending, committed, name)],
                        Continue(err))
    /\ UNCHANGED <<driver, rt, programMap, parentID, rng>>

\* The ID programCreateFunc hands to ProgramCreate.Execute: the package
\* variable parentID, not the programID it drew.
programCreateTxID(programID, parent) == parent

\* ProgramCreate.Execute stores the action's program under the ID it is given.
ProgramCreateExecute(p, txID, bytes) == setProgram(p, txID, bytes)

\* The entry the driver makes after a successful program_create.
bindStepAlways(map, i, id, err) == [j \in DOMAIN map \cup {i} |-> IF j = i THEN id ELSE map[j]]
bindStep(map, i, id, err) ==
    IF err = "" THEN [j \in DOMAIN map \cup {i} |-> IF j = i THEN id ELSE map[j]]
    ELSE map

\* case ProgramCreate: programCreateFunc, then the step_i binding.
runProgramCreate ==
    /\ driver = "plan" /\ status = "running" /\ pc < MaxSteps
    /\ \E endpoint \in Endpoints : \E path \in {-1} \cup Paths :
        LET err == IF path = -1 THEN "ErrFailedParamTypeCast"
                   ELSE IF ~ReadFileOk(path) THEN "ErrReadFile" ELSE ""
            id == generateRandomID(rng)
            in == [NoInput EXCEPT !.kind = "create", !.endpoint = endpoint, !.path = path]
        IN
        /\ programMap' = bindStep(programMap, pc, id, err)
        /\ IF err # ""
           THEN /\ StepEffect(committed, pending,
                           [Obs("create", endpoint, err) EXCEPT !.input = in], "failed")
                /\ UNCHANGED rng
           ELSE LET p1 == ProgramCreateExecute(pending, programCreateTxID(id, parentID), path) IN
                /\ StepEffect(Commit(p1, committed), NoPending,
                              [Obs("create", endpoint, "") EXCEPT
                                   !.input = in,
                                   !.programID = id,
                                   !.storedAt = programCreateTxID(id, parentID),
                                   !.bytes = path],
                              "running")
                /\ rng' = rng + 1
    /\ UNCHANGED <<driver, rt, parentID>>

\* The shape of a call step's params: too few, params[0] not of type id or
\* not a string, params[1] not of type u64 or not convertible.
Shapes == {"ok", "short", "type0", "cast0", "type1", "conv1"}
shapeErrBefore(shape) ==
    CASE shape = "short" -> "ErrInvalidStep"
      [] shape = "type0" -> "ErrInvalidParamType"
      [] shape = "cast0" -> "ErrFailedParamTypeCast"
      [] OTHER -> ""
shapeErrAfter(shape) ==
    CASE shape = "type1" -> "ErrInvalidParamType"
      [] shape = "conv1" -> "ErrIntToUint64"
      [] OTHER -> ""

\* Whether programExecuteFunc commits after a successful call: it does, for
\* either endpoint.
programExecuteCommits(endpoint) == TRUE

\* default: a program call through programExecuteFunc.
runProgramExecute ==
    /\ driver = "plan" /\ status = "running" /\ pc < MaxSteps
    /\ \E endpoint \in Endpoints : \E shape \in Shapes :
        IF shapeErrBefore(shape) # ""
        THEN /\ StepEffect(committed, pending,
                           [Obs("call", endpoint, shapeErrBefore(shape)) EXCEPT
                               !.input = [NoInput EXCEPT !.kind = "call",
                                              !.endpoint = endpoint, !.shape = shape]],
                           "failed")
             /\ UNCHANGED rng
        ELSE \E ref \in PlanRefs :
         LET id == getProgramID(programMap, ref)
             obs0 == [Obs("call", endpoint, "") EXCEPT
                         !.input = [NoInput EXCEPT !.kind = "call", !.endpoint = endpoint,
                                                   !.shape = shape, !.ref = ref],
                         !.ref = ref, !.programID = id]
         IN
         IF getProgramIDErr(programMap, ref) # ""
         THEN /\ StepEffect(committed, pending,
                            [obs0 EXCEPT !.err = getProgramIDErr(programMap, ref)], "failed")
              /\ UNCHANGED rng
         ELSE IF shapeErrAfter(shape) # ""
         THEN /\ StepEffect(committed, pending, [obs0 EXCEPT !.err = shapeErrAfter(shape)], "failed")
              /\ UNCHANGED rng
         ELSE IF getProgram(pending, committed, id) = NotFound
         THEN \* the runtime is made before the lookup, its Stop deferred after it
              /\ StepEffect(committed, pending,
                            [obs0 EXCEPT !.err = "ErrGetProgram", !.rtMade = TRUE], "failed")
              /\ UNCHANGED rng
         ELSE \E out \in PlanCallResults :
              LET p1 == CallWrites(pending, out)
                  obs == [obs0 EXCEPT !.input.out = out,
                                      !.err = callErr(out),
                                      !.outcome = out.kind,
                                      !.writes = out.writes, !.nested = out.nested,
                                      \* defer rt.Stop() before rt.Initialize
                                      !.rtMade = TRUE, !.rtStopped = TRUE]
                  c1 == IF programExecuteCommits(endpoint) THEN Commit(p1, committed) ELSE committed
                  p2 == IF programExecuteCommits(endpoint) THEN NoPending ELSE p1
              IN
              IF out.kind \in {"init", "params"}
              THEN /\ StepEffect(committed, p1, obs, "failed")
                   /\ UNCHANGED rng
              ELSE /\ rng' = rng + 1
                   /\ IF out.kind = "trap"
                      THEN StepEffect(committed, p1, obs, "failed")
                      ELSE IF out.empty
                      THEN StepEffect(c1, p2, [obs EXCEPT !.err = "panic"], "panic")
                      ELSE \* step.Require is not looked at
                           StepEffect(c1, p2, [obs EXCEPT !.violated = out.violated], "running")
    /\ UNCHANGED <<driver, rt, programMap, parentID>>

\* default: ErrInvalidEndpoint
runInvalidEndpoint ==
    /\ driver = "plan" /\ status = "running" /\ pc < MaxSteps
    /\ StepEffect(committed, pending,
                  [Obs("invalid", "", "ErrInvalidEndpoint") EXCEPT
                      !.input = [NoInput EXCEPT !.kind = "invalid"]],
                  "failed")
    /\ UNCHANGED <<driver, rt, programMap, parentID, rng>>

\* runCmd.Init after the plan is parsed.  The step list of a parsed plan is
\* nil when the document has no "steps" (or null), and an empty list that
\* is not nil when it has "steps: []"; Init tests Steps == nil and then
\* reads Steps[0], which panics on the empty list.
PlanShapes == {"absent", "empty", "noparams", "ok"}
initErr(shape) ==
    CASE shape = "absent" -> "ErrInvalidPlan"
      [] shape = "empty" -> "PanicIndexOutOfRange"
      [] shape = "noparams" -> "ErrInvalidStep"
      [] OTHER -> ""

\* The bytes of a plan file, by what the decoders make of them:
\*   json      what encoding/json reads: an object, the literal null, another
\*             value (array, string, number), or no JSON at all;
\*   yaml      the same for yaml.v2: a mapping, an empty or null document,
\*             another node, or no YAML at all;
\*   jsonFits  whether encoding/json decodes the bytes into a Plan without
\*             error, yamlFits the same for yaml.v2 (the two differ: yaml.v2
\*             decodes the scalar 5 into a string field, encoding/json does not);
\*   shape     the step list of the decoded Plan.
\* A JSON document is a YAML document of the same kind.
JSONKinds == {"object", "null", "other", "invalid"}
YAMLKinds == {"mapping", "null", "other", "invalid"}
DocOk(d) ==
    /\ d.json = "object" => d.yaml = "mapping"
    /\ d.json = "null" => d.yaml = "null"
    /\ d.json = "other" => d.yaml = "other"
    /\ d.json # "object" => d.jsonFits = (d.json = "null")
    /\ d.yaml # "mapping" => d.yamlFits = (d.yaml = "null")
    /\ d.yaml # "mapping" => d.shape = "absent"
Docs ==
    {d \in [json : JSONKinds, yaml : YAMLKinds, jsonFits : BOOLEAN, yamlFits : BOOLEAN,
             shape : PlanShapes] : DocOk(d)}

\* isJSON, isYAML: the bytes decode into a map[string]interface{}.
isJSON(d) == d.json \in {"object", "null"}
isYAML(d) == d.yaml \in {"mapping", "null"}

\* A decoder that tries each format's decode into the Plan in turn.
unmarshalPlanFallback(d) ==
    IF d.jsonFits THEN [format |-> "json", err |-> "", plan |-> d.shape]
    ELSE IF d.yamlFits THEN [format |-> "yaml", err |-> "", plan |-> d.shape]
    ELSE [format |-> "", err |-> "ErrInvalidConfigFormat", plan |-> "none"]

\* unmarshalPlan (unmarshalSimulation, runSteps): the format is the first
\* of JSON, YAML whose detection succeeds, and that format's decoder
\* gives the plan or the error.
unmarshalPlan(d) ==
    IF isJSON(d)
    THEN IF d.jsonFits THEN [format |-> "json", err |-> "", plan |-> d.shape]
         ELSE [format |-> "json", err |-> "ErrJSONUnmarshal", plan |-> "none"]
    ELSE IF isYAML(d)
    THEN IF d.yamlFits THEN [format |-> "yaml", err |-> "", plan |-> d.shape]
         ELSE [format |-> "yaml", err |-> "ErrYAMLUnmarshal", plan |-> "none"]
    ELSE [format |-> "", err |-> "ErrInvalidConfigFormat", plan |-> "none"]

\* runCmd.Init rejects the plan and Run is not reached.
runInitInvalidPlan ==
    /\ driver = "plan" /\ status = "running" /\ pc = 0
    /\ \E d \in Docs :
        LET res == unmarshalPlan(d)
            err == IF res.err # "" THEN res.err ELSE initErr(res.plan)
        IN  /\ err # ""
            /\ last' = [NoStep EXCEPT !.kind = "init", !.doc = d, !.format = res.format,
                                      !.shape = res.plan, !.err = err]
    /\ status' = "failed"
    /\ UNCHANGED <<twin, driver, rt, committed, pending, programMap, parentID, rng, pc, hist>>

\* The loop ends: Run returns nil.
runReturn ==
    /\ driver = "plan" /\ status = "running" /\ pc >= 1
    /\ twin.phase = "second" => (pc = Len(twin.inputs) /\ twin.status = "done")
    /\ status' = "done"
    /\ UNCHANGED <<twin, driver, rt, committed, pending, programMap, parentID, rng, pc, last, hist>>

\* The response records runCmd.Run prints.  A key step prints its record
\* when it succeeds and returns without printing when it fails.  A
\* program_create or program call step defers resp.Print() and also calls
\* resp.Print() when it succeeds; the deferred calls run when Run returns
\* (or panics), the latest first.  An invalid endpoint prints nothing.
Record(h) == [ID |-> h.idx, Error |-> h.err]
PrintsAtOnce(h) == h.kind \in {"key", "create", "call"} /\ h.err = ""
PrintsDeferred(h) == h.kind \in {"create", "call"}
Records(steps) == [j \in 1..Len(steps) |-> Record(steps[j])]
Reverse(seq) == [j \in 1..Len(seq) |-> seq[Len(seq) + 1 - j]]
Printed ==
    Records(SelectSeq(hist, PrintsAtOnce))
        \o (IF status = "running" THEN <<>>
            ELSE Reverse(Records(SelectSeq(hist, PrintsDeferred))))

\* --------------------------------------- the "legacy" driver (runCmdFunc)
\* ids.ToID([]byte(action.ProgramID)): the text must be the 32 bytes of an ID.
ToIDOk(ref) == ref.kind = "id"

\* case "deploy": deployProgram assigns the package variable programID
\* (the variable parentID here) and inserts the bytes.
legacyDeploy ==
    /\ driver = "legacy" /\ status = "running" /\ pc < MaxSteps
    /\ \E path \in {-1} \cup Paths :
        IF path = -1 \/ ~ReadFileOk(path)
        THEN /\ StepEffect(committed, pending,
                           Obs("create", "", IF path = -1 THEN "ErrProgramPathRequired"
                                             ELSE "ErrReadFile"), "failed")
             /\ UNCHANGED <<parentID, rng>>
        ELSE LET id == generateRandomID(rng) IN
             /\ StepEffect(committed, setProgram(pending, id, path),
                           [Obs("create", "", "") EXCEPT
                                !.programID = id, !.storedAt = id, !.bytes = path],
                           "running")
             /\ parentID' = id
             /\ rng' = rng + 1
    /\ UNCHANGED <<driver, rt, programMap>>

\* What callProgram of the legacy driver makes of rt.Call's error: nothing,
\* the result of rt.Call is dropped.
legacyCallErr(out) ==
    CASE out.kind = "init" -> "ErrInitialize"
      [] out.kind = "params" -> "ErrCreateParams"
      [] OTHER -> ""

\* case "call": callProgram commits once rt.Call has returned.
legacyCall ==
    /\ driver = "legacy" /\ status = "running" /\ pc < MaxSteps
    /\ \E ref \in StepRefs :
        LET lerr == IF ~ToIDOk(ref) THEN "ErrParseID"
                    ELSE IF getProgram(pending, committed, ref.n) = NotFound
                         THEN "ErrProgramNotFound" ELSE ""
        IN
        IF lerr # ""
        THEN /\ StepEffect(committed, pending, Obs("call", "execute", lerr), "failed")
             /\ UNCHANGED rng
        ELSE \E out \in LegacyCallResults :
             LET p1 == CallWrites(pending, out)
                 obs == [Obs("call", "execute", legacyCallErr(out)) EXCEPT
                            !.outcome = out.kind,
                            !.writes = out.writes, !.nested = out.nested,
                            !.ref = ref,
                            !.programID = ref.n,
                            \* rt := runtime.New(..), and no rt.Stop()
                            !.rtMade = TRUE, !.rtStopped = FALSE]
             IN
             /\ rng' = rng + 1
             /\ IF legacyCallErr(out) # ""
                THEN StepEffect(committed, p1, obs, "failed")
                ELSE StepEffect(Commit(p1, committed), NoPending, obs, "running")
    /\ UNCHANGED <<driver, rt, programMap, parentID>>

\* default: ErrInvalidAction
legacyInvalid ==
    /\ driver = "legacy" /\ status = "running" /\ pc < MaxSteps
    /\ StepEffect(committed, pending, Obs("invalid", "", "ErrInvalidAction"), "failed")
    /\ UNCHANGED <<driver, rt, programMap, parentID, rng>>

legacyReturn ==
    /\ driver = "legacy" /\ status = "running"
    /\ status' = "done"
    /\ UNCHANGED <<twin, driver, rt, committed, pending, programMap, parentID, rng, pc, last, hist>>

\* ------------------------------------- the "unit" driver (config_test.go)
\* One case of TestValidateAssertion, against either validateAssertion.
Variants == {"config", "program"}
TestValidateAssertion ==
    /\ driver = "unit" /\ status = "running" /\ pc < MaxSteps
    /\ \E variant \in Variants : \E actual \in 0..MaxVal : \E a \in Assertions :
        StepEffect(committed, pending,
                   [Obs("assert", variant, "") EXCEPT
                        !.actual = actual, !.assertion = a,
                        !.result = IF variant = "config" THEN validateAssertion(actual, a)
                                   ELSE validateAssertionSteps(actual, a)],
                   "running")
    /\ UNCHANGED <<driver, rt, programMap, parentID, rng>>

\* unmarshalPlan applied to the bytes of one file; its error is returned.
unmarshalPlanCase ==
    /\ driver = "unit" /\ status = "running" /\ pc < MaxSteps
    /\ \E d \in Docs :
        LET res == unmarshalPlan(d) IN
        StepEffect(committed, pending,
                   [Obs("unmarshal", "", res.err) EXCEPT
                        !.doc = d, !.format = res.format, !.shape = res.plan],
                   Continue(res.err))
    /\ UNCHANGED <<driver, rt, programMap, parentID, rng>>

\* ProgramExecute.Execute (vm/actions): the action on a runtime it is given.
\* ProgramID is empty, text that is no ID, or the text of an ID; the guest's
\* writes land in the buffer and the action does not commit.  Stop is
\* deferred once Initialize has succeeded.
ActionRefs == {[kind |-> "empty", n |-> 0], [kind |-> "bad", n |-> 0]}
                \cup [kind : {"id"}, n : PlanIDs]
ActionResults == {res \in LegacyCallResults : res.kind # "params"}
executeStops(kind) == kind # "init"
ProgramExecuteExecute ==
    /\ driver = "unit" /\ status = "running" /\ pc < MaxSteps
    /\ \E ref \in ActionRefs :
        LET err0 == IF ref.kind = "empty" THEN "ErrOutputValueZero"
                    ELSE IF ~FromStringOk(ref) THEN "ErrParseID"
                    ELSE IF getProgram(pending, committed, ref.n) = NotFound
                         THEN "ErrGetProgram" ELSE ""
        IN
        IF err0 # ""
        THEN StepEffect(committed, pending,
                        [Obs("call", "action", err0) EXCEPT !.ref = ref], "failed")
        ELSE \E out \in ActionResults :
             StepEffect(committed, CallWrites(pending, out),
                        [Obs("call", "action", callErr(out)) EXCEPT
                            !.outcome = out.kind,
                            !.writes = out.writes, !.nested = out.nested,
                            !.ref = ref, !.programID = ref.n,
                            !.rtMade = TRUE, !.rtStopped = executeStops(out.kind)],
                        Continue(callErr(out)))
    /\ UNCHANGED <<driver, rt, programMap, parentID, rng>>

TestReturn ==
    /\ driver = "unit" /\ status = "running"
    /\ status' = "done"
    /\ UNCHANGED <<twin, driver, rt, committed, pending, programMap, parentID, rng, pc, last, hist>>

\* ------------------------------------------------------------ the system
EmptyStore == [k \in Keys |-> NotFound]
NoChild == [fuel |-> 0, left |-> 0]
NoRuntime ==
    [state |-> "none", fee |-> 0, maxPages |-> 0, cfg |-> [meterMaxUnits |-> 0, limitMaxMemory |-> <<0, 0, 0, 0>>, err |-> ""],
     limit |-> 0, seed |-> 0, len |-> 0, mem |-> <<>>, balance |-> 0,
     op |-> "", a |-> 0, b |-> 0, err |-> "", child |-> NoChild, stops |-> 0,
     frames |-> <<>>, work |-> 0, calls |-> 0]
Drivers == {"plan", "steps", "legacy", "unit"}

Init ==
    /\ driver \in Drivers
    /\ \E b \in {NotFound} \cup Files : committed = [EmptyStore EXCEPT ![programKey(1)] = b]
    /\ pending = NoPending
    /\ programMap = [i \in {} |-> Empty]
    /\ parentID = Empty
    /\ rng = 1
    /\ pc = 0
    /\ status = "running"
    /\ last = NoStep
    /\ hist = <<>>
    /\ rt = NoRuntime
    /\ twin = NoTwin

Next ==
    \/ runStepsCreateKey
    \/ runStepsDeploy
    \/ runStepsCall
    \/ runStepsInvalid
    \/ runStepsReturn
    \/ runKey
    \/ runProgramCreate
    \/ runProgramExecute
    \/ runInvalidEndpoint
    \/ runInitInvalidPlan
    \/ runReturn
    \/ legacyDeploy
    \/ legacyCall
    \/ legacyInvalid
    \/ legacyReturn
    \/ TestValidateAssertion
    \/ unmarshalPlanCase
    \/ ProgramExecuteExecute
    \/ TestReturn

Spec == Init /\ [][Next]_vars

\* ------------------------------------- the "runtime" driver (memory_test.go)
MaxPages == 2       \* pages a module declares, pages one Grow asks for
MaxFuel == 2        \* the max fee of a step, the units one operation costs
MaxStops == 2       \* calls of Stop on one runtime
MemoryPageSize == 65536
defaultLimitMaxMemory == 18 * MemoryPageSize
NoUnits == 0

\* A uint64 (and a non-negative int64) is kept as its four 16-bit limbs, the
\* most significant first, so that 64-bit arithmetic is exact.
Limbs == {0, 1, MemoryPageSize \div 2 - 1, MemoryPageSize \div 2, MemoryPageSize - 1}
Uint64s == Limbs \X Limbs \X Limbs \X Limbs
Uint64(n) == <<0, 0, n \div MemoryPageSize, n % MemoryPageSize>>
Int64(u) == u[3] * MemoryPageSize + u[4]
Zero64 == Uint64(0)
MaxInt64 ==
    <<MemoryPageSize \div 2 - 1, MemoryPageSize - 1, MemoryPageSize - 1, MemoryPageSize - 1>>
RECURSIVE LessFrom(_, _, _)
LessFrom(u, v, i) ==
    IF i > Len(u) THEN FALSE
    ELSE IF u[i] # v[i] THEN u[i] < v[i]
    ELSE LessFrom(u, v, i + 1)
Less(u, v) == LessFrom(u, v, 1)

\* max * MemoryPageSize in uint64: the limbs move up by one and the most
\* significant is lost.
TimesPageSize(u) == <<u[2], u[3], u[4], 0>>

\* runtime.Config (part_014): NewConfig, WithLimitMaxMemory, ResetUnits, and
\* what build() makes of it: the recorded error, or the config with a limit
\* of 0 replaced by the default of 18 pages.
NewConfigExtra(meterMaxUnits) ==
    [meterMaxUnits |-> meterMaxUnits + 1, limitMaxMemory |-> Zero64, err |-> ""]
NewConfig(meterMaxUnits) ==
    [meterMaxUnits |-> meterMaxUnits, limitMaxMemory |-> Zero64, err |-> ""]
WithLimitMaxMemoryIgnored(c, max) == c
WithLimitMaxMemoryUnchecked(c, max) == [c EXCEPT !.limitMaxMemory = max]
WithLimitMaxMemory(c, max) ==
    IF Less(MaxInt64, max) THEN [c EXCEPT !.err = "ErrMaxMemory"]
    ELSE [c EXCEPT !.limitMaxMemory = max]
ResetUnitsKeep(c) == c
ResetUnits(c) == [c EXCEPT !.meterMaxUnits = NoUnits]
buildDefault(c) == [c EXCEPT !.limitMaxMemory = Uint64(defaultLimitMaxMemory)]
build(c) ==
    IF c.err # "" THEN [meterMaxUnits |-> 0, limitMaxMemory |-> Zero64, err |-> c.err]
    ELSE [c EXCEPT !.limitMaxMemory =
            IF c.limitMaxMemory = Zero64 THEN Uint64(defaultLimitMaxMemory)
            ELSE c.limitMaxMemory]

\* The linear memory is followed at the two addresses of the first page
\* boundary; a fresh page reads 0.
Probes == {MemoryPageSize - 1, MemoryPageSize}
ZeroMemory == [x \in Probes |-> 0]
Offsets == {0, MemoryPageSize - 1, MemoryPageSize}
Lengths == {1, MemoryPageSize, MemoryPageSize + 1}
Bytes == 1..MaxVal

\* Memory.Write, Memory.Read: the range [offset, offset + n) lies in the memory.
memoryInRange(len, offset, n) == offset + n <= len
memoryCopy(mem, len, offset, n, v) ==
    [x \in Probes |-> IF offset <= x /\ x < offset + n THEN v ELSE mem[x]]
memoryWrite(mem, len, offset, n, v) ==
    IF memoryInRange(len, offset, n) THEN memoryCopy(mem, len, offset, n, v) ELSE mem

\* Memory.Grow: the length it leaves, the limit permitting.
memoryGrowOk(len, limit, delta) == len + delta * MemoryPageSize <= limit
memoryGrow(len, limit, delta) ==
    IF memoryGrowOk(len, limit, delta) THEN len + delta * MemoryPageSize ELSE len

\* The harness of the tests: cfg := NewConfig(maxFee).WithLimitMaxMemory(..),
\* runtime := New(log, cfg, nil).
RtInit ==
    /\ driver = "runtime"
    /\ committed = EmptyStore
    /\ pending = NoPending
    /\ programMap = [i \in {} |-> Empty]
    /\ parentID = Empty
    /\ rng = 1
    /\ pc = 0
    /\ status = "running"
    /\ last = NoStep
    /\ hist = <<>>
    /\ twin = NoTwin
    /\ \E fee \in 0..MaxFuel : \E pages \in 0..MaxPages :
        rt = [NoRuntime EXCEPT
                !.state = "new", !.fee = fee, !.maxPages = pages,
                !.cfg = WithLimitMaxMemory(NewConfig(fee), Uint64(pages * MemoryPageSize))]

\* Runtime.Initialize of a module that declares `min` pages of memory.
rtInitialize ==
    /\ driver = "runtime" /\ rt.state = "new"
    /\ \E min \in 1..(MaxPages + 1) :
        LET c == build(rt.cfg) IN
        IF c.err # ""
        THEN rt' = [rt EXCEPT !.state = "failed", !.cfg = c, !.op = "Initialize", !.a = min,
                              !.err = c.err]
        ELSE IF min * MemoryPageSize > Int64(c.limitMaxMemory)
        THEN rt' = [rt EXCEPT !.state = "failed", !.cfg = c, !.limit = Int64(c.limitMaxMemory),
                              !.op = "Initialize", !.a = min,
                              !.err = "ErrMemoryMinimumExceedsLimits"]
        ELSE rt' = [rt EXCEPT !.state = "ready", !.cfg = c, !.limit = Int64(c.limitMaxMemory),
                              !.seed = c.meterMaxUnits, !.balance = c.meterMaxUnits,
                              !.len = min * MemoryPageSize, !.mem = ZeroMemory,
                              !.op = "Initialize", !.a = min, !.err = ""]
    /\ UNCHANGED <<twin, driver, committed, pending, programMap, parentID, rng, pc, status, last, hist>>

\* runtime.Memory().Grow(delta)
rtGrow ==
    /\ driver = "runtime" /\ rt.state = "ready"
    /\ \E delta \in 1..MaxPages :
        rt' = [rt EXCEPT !.len = memoryGrow(rt.len, rt.limit, delta),
                         !.op = "Grow", !.a = delta, !.b = 0,
                         !.err = IF memoryGrowOk(rt.len, rt.limit, delta)
                                 THEN "" ELSE "ErrFailedToGrowMemory",
                         !.child = NoChild]
    /\ UNCHANGED <<twin, driver, committed, pending, programMap, parentID, rng, pc, status, last, hist>>

\* runtime.Memory().Write(offset, bytes) with n bytes of value v
rtWrite ==
    /\ driver = "runtime" /\ rt.state = "ready"
    /\ \E offset \in Offsets : \E n \in Lengths : \E v \in Bytes :
        rt' = [rt EXCEPT !.mem = memoryWrite(rt.mem, rt.len, offset, n, v),
                         !.op = "Write", !.a = offset, !.b = n,
                         !.err = IF memoryInRange(rt.len, offset, n)
                                 THEN "" ELSE "ErrInvalidMemorySize",
                         !.child = NoChild]
    /\ UNCHANGED <<twin, driver, committed, pending, programMap, parentID, rng, pc, status, last, hist>>

\* runtime.Memory().Read(offset, n)
rtRead ==
    /\ driver = "runtime" /\ rt.state = "ready"
    /\ \E offset \in Offsets : \E n \in Lengths :
        rt' = [rt EXCEPT !.op = "Read", !.a = offset, !.b = n,
                         !.err = IF memoryInRange(rt.len, offset, n)
                                 THEN "" ELSE "ErrInvalidMemoryAddress",
                         !.child = NoChild]
    /\ UNCHANGED <<twin, driver, committed, pending, programMap, parentID, rng, pc, status, last, hist>>

\* The meter: the engine takes the cost of what the guest executes from the
\* balance; a cost the balance does not cover exhausts it and traps.
meterSpend(balance, cost) == IF cost <= balance THEN balance - cost ELSE 0

\* runtime.Call: the guest executes instructions that cost `cost` units.
rtCall ==
    /\ driver = "runtime" /\ rt.state = "ready"
    /\ \E cost \in 1..MaxFuel :
        rt' = [rt EXCEPT !.balance = meterSpend(rt.balance, cost),
                         !.op = "Call", !.a = cost, !.b = 0,
                         !.err = IF cost <= rt.balance THEN "" ELSE "ErrTrap",
                         !.child = NoChild]
    /\ UNCHANGED <<twin, driver, committed, pending, programMap, parentID, rng, pc, status, last, hist>>

\* The program import: the guest calls another program with a sub-budget.
\* The child runtime is made from cfg.ResetUnits(), the sub-budget is moved
\* from the caller's meter to the child's, the child runs and is stopped;
\* what it leaves unspent is not given back.
rtCallProgram ==
    /\ driver = "runtime" /\ rt.state = "ready"
    /\ \E sub \in 0..MaxFuel : \E cost \in 0..MaxFuel :
        LET c == ResetUnits(rt.cfg) IN
        IF sub > rt.balance
        THEN rt' = [rt EXCEPT !.cfg = c, !.op = "CallProgram", !.a = sub, !.b = cost,
                              !.err = "ErrInsufficientUnits", !.child = NoChild]
        ELSE rt' = [rt EXCEPT !.cfg = c, !.balance = rt.balance - sub,
                              !.op = "CallProgram", !.a = sub, !.b = cost,
                              !.err = IF cost <= c.meterMaxUnits + sub THEN "" ELSE "ErrTrap",
                              !.child = [fuel |-> c.meterMaxUnits + sub,
                                         left |-> meterSpend(c.meterMaxUnits + sub, cost)]]
    /\ UNCHANGED <<twin, driver, committed, pending, programMap, parentID, rng, pc, status, last, hist>>

\* Runtime.Stop releases the store and the instance, whatever the runtime
\* holds of them: nothing before Initialize, nothing after an Initialize that
\* failed, nothing after an earlier Stop.  It returns no error.
StopStrict(r) ==
    IF r.state = "ready"
    THEN [r EXCEPT !.state = "stopped", !.op = "Stop", !.a = 0, !.b = 0, !.err = "",
                   !.child = NoChild, !.stops = r.stops + 1]
    ELSE [r EXCEPT !.op = "Stop", !.a = 0, !.b = 0, !.err = "ErrNotInitialized",
                   !.child = NoChild, !.stops = r.stops + 1]
Stop(r) ==
    [r EXCEPT !.state = "stopped", !.op = "Stop", !.a = 0, !.b = 0, !.err = "",
              !.child = NoChild, !.stops = r.stops + 1]

\* runtime.Stop(), on a runtime in any state
rtStop ==
    /\ driver = "runtime" /\ rt.stops < MaxStops
    /\ rt' = Stop(rt)
    /\ UNCHANGED <<twin, driver, committed, pending, programMap, parentID, rng, pc, status, last, hist>>

RtNext ==
    \/ rtInitialize
    \/ rtGrow
    \/ rtWrite
    \/ rtRead
    \/ rtCall
    \/ rtCallProgram
    \/ rtStop

RuntimeSpec == RtInit /\ [][RtNext]_vars

\* ------------------------------------------- chains of program re-entry
\* One call step, followed through the program import: rt is the runtime
\* whose guest is running, rt.frames the balances of the callers that wait
\* for it (the innermost first), rt.work the units the engine has consumed
\* in the whole chain, rt.calls the child runtimes started so far.
MaxBudget == 4      \* the max fee of the outermost call

\* The caller's balance once the sub-budget has gone to the child.
transferUnitsKept(balance, sub) == balance
transferUnits(balance, sub) == balance - sub

\* The guest's function ends, with a result or with a trap: the outermost
\* Call returns to the driver; a child is stopped, what it has left is
\* forfeited, and its caller runs on with its own balance.
reentryReturn(r, err) ==
    IF r.frames = <<>>
    THEN [r EXCEPT !.state = "returned", !.op = "Call", !.err = err]
    ELSE [r EXCEPT !.balance = Head(r.frames), !.frames = Tail(r.frames),
                   !.op = "CallProgram", !.err = err]

\* The engine executes instructions of the running guest that cost `cost`
\* units: the meter pays for them, or is exhausted and the guest traps.
reentrySpend(r, cost) ==
    IF cost <= r.balance
    THEN [r EXCEPT !.balance = meterSpend(r.balance, cost), !.work = r.work + cost,
                   !.op = "Call", !.err = ""]
    ELSE reentryReturn([r EXCEPT !.balance = meterSpend(r.balance, cost),
                                 !.work = r.work + r.balance], "ErrTrap")

\* The call has been handed to the runtime: Initialize has seeded the meter.
NestInit ==
    /\ driver = "nest"
    /\ committed = EmptyStore
    /\ pending = NoPending
    /\ programMap = [i \in {} |-> Empty]
    /\ parentID = Empty
    /\ rng = 1
    /\ pc = 0
    /\ status = "running"
    /\ last = NoStep
    /\ hist = <<>>
    /\ twin = NoTwin
    /\ \E fee \in 0..MaxBudget :
        rt = [NoRuntime EXCEPT !.state = "ready", !.fee = fee, !.cfg = NewConfig(fee),
                               !.seed = NewConfig(fee).meterMaxUnits,
                               !.balance = NewConfig(fee).meterMaxUnits]

reentryExecute ==
    /\ driver = "nest" /\ rt.state = "ready"
    /\ \E cost \in 1..MaxFuel : rt' = reentrySpend(rt, cost)
    /\ UNCHANGED <<twin, driver, committed, pending, programMap, parentID, rng, pc, status, last, hist>>

\* The guest calls the program import with a sub-budget: the call
\* instruction is paid for; a sub-budget above the balance is refused and
\* the guest runs on; otherwise the child runtime starts from
\* cfg.ResetUnits() with the sub-budget and the caller waits.
reentryCallProgram ==
    /\ driver = "nest" /\ rt.state = "ready"
    /\ \E sub \in 0..MaxBudget :
        LET r == reentrySpend(rt, 1) IN
        IF rt.balance < 1 THEN rt' = r
        ELSE IF sub > r.balance
        THEN rt' = [r EXCEPT !.op = "CallProgram", !.err = "ErrInsufficientUnits"]
        ELSE rt' = [r EXCEPT !.frames = <<transferUnits(r.balance, sub)>> \o r.frames,
                             !.balance = ResetUnits(r.cfg).meterMaxUnits + sub,
                             !.calls = r.calls + 1,
                             !.op = "CallProgram", !.err = ""]
    /\ UNCHANGED <<twin, driver, committed, pending, programMap, parentID, rng, pc, status, last, hist>>

reentryEnd ==
    /\ driver = "nest" /\ rt.state = "ready"
    /\ rt' = reentryReturn(rt, "")
    /\ UNCHANGED <<twin, driver, committed, pending, programMap, parentID, rng, pc, status, last, hist>>

NestNext ==
    \/ reentryExecute
    \/ reentryCallProgram
    \/ reentryEnd

\* The call runs on one thread and nothing suspends it: the engine always
\* takes the next step of the running guest.
NestSpec == NestInit /\ [][NestNext]_vars /\ WF_vars(NestNext)

\* ------------------------------------------------- two runs of one plan
\* A plan that was parsed and accepted by Init is run.
TwinInit ==
    /\ driver = "plan"
    /\ \E b \in {NotFound} \cup Files : committed = [EmptyStore EXCEPT ![programKey(1)] = b]
    /\ pending = NoPending
    /\ programMap = [i \in {} |-> Empty]
    /\ parentID = Empty
    /\ rng = 1
    /\ pc = 0
    /\ status = "running"
    /\ last = NoStep
    /\ hist = <<>>
    /\ rt = NoRuntime
    /\ twin = [NoTwin EXCEPT !.phase = "first", !.start = committed]

\* The first run has ended; the simulator is started again on the store the
\* first run started from, with the same plan, and generateRandomID draws
\* the IDs it drew before.  ed25519.GeneratePrivateKey draws the same keys
\* or other keys.
twinRestart ==
    /\ driver = "plan" /\ twin.phase = "first" /\ status # "running"
    /\ \E offset \in {0, MaxSteps} :
        twin' = [twin EXCEPT !.phase = "second", !.final = committed,
                             !.status = status, !.keyOffset = offset]
    /\ committed' = twin.start
    /\ pending' = NoPending
    /\ programMap' = [i \in {} |-> Empty]
    /\ parentID' = Empty
    /\ rng' = 1
    /\ pc' = 0
    /\ status' = "running"
    /\ last' = NoStep
    /\ hist' = <<>>
    /\ UNCHANGED <<driver, rt>>

TwinNext ==
    \/ runKey
    \/ runProgramCreate
    \/ runProgramExecute
    \/ runInvalidEndpoint
    \/ runReturn
    \/ twinRestart

TwinSpec == TwinInit /\ [][TwinNext]_vars

\* ------------------------------------ createParams (the "params" driver)
MaxParams == 2      \* parameters of one call

\* Parameter.Type, lower-cased: the five supported types and any other text.
ParamTypes == {"string", "bool", "id", "key", "uint64", "other"}

\* Parameter.Value as the decoder leaves it: its Go type and its content.
\* The string 1 is the text of ID 1 and the name of key 1; the string 0 is
\* text that is no ID and names no key.
ParamValues ==
    [go : {"string", "bool"}, v : {0, 1}] \cup [go : {"float64", "int"}, v : {1}]
\* The parameters drawn: of each type one with a value of its Go type and
\* one with a value of another; numbers only for uint64.
ParamCase(p) ==
    CASE p.value.go = "string" /\ p.value.v = 0 -> p.type \in {"string", "id", "key"}
      [] p.value.go = "string" /\ p.value.v = 1 -> p.type # "string"
      [] p.value.go = "bool" /\ p.value.v = 0 -> p.type = "bool"
      [] p.value.go = "bool" /\ p.value.v = 1 -> p.type \in {"string", "bool", "id", "key"}
      [] OTHER -> p.type = "uint64"
Parameters == {p \in [type : ParamTypes, value : ParamValues] : ParamCase(p)}
ParamLists == UNION {[1..n -> Parameters] : n \in 0..MaxParams}

\* A value handed to the guest: a pointer to bytes that runtime.WriteBytes
\* copied into its memory, or a number passed by value.
Ptr(bytes) == [ptr |-> TRUE, v |-> bytes]
Val(n) == [ptr |-> FALSE, v |-> n]
IDBytes(id) == <<"id", id>>
StringBytes(text) == <<"string", text>>

\* An ed25519.PrivateKey is 64 bytes, the seed followed by the public key.
\* setKey stores all of them; PrivateKey.PublicKey() is the second half, and
\* the conversion ed25519.PublicKey(v) of the stored bytes is the first 32.
SeedBytes(priv) == <<"seed", priv>>
PublicKeyBytes(priv) == <<"public", priv>>
PublicKey(v) == SeedBytes(v)

boolToUint64(b) == IF b = 1 THEN 1 ELSE 0

\* db.GetValue under getPublicKey and getProgram: the store may fail with an
\* error that is not ErrNotFound (io).  Both return (value, ok, err) with
\* ok = false whenever err is set.
StoreError == -3
lookupValue(p, c, k, io) ==
    IF io THEN StoreError ELSE IF k \in DOMAIN c THEN GetValue(p, c, k) ELSE NotFound
lookupOk(v) == v # NotFound /\ v # StoreError
lookupErr(v) == IF v = StoreError THEN "ErrStorage" ELSE ""

\* The callers test !ok before err.
notFoundOrErr(v, notFound) ==
    IF ~lookupOk(v) THEN notFound ELSE lookupErr(v)

\* The createParams of the source tree:
\*   "program"  cmd/simulator/cmd/program.go:354
\*   "actions"  x/programs/simulator/vm/actions/program_execute.go:333
\*   "part006"  unnamed/part_006:318
\*   "examples" x/programs/examples/simulator/cmd/key.go:351 (and part_003:237)
ParamVariants == {"program", "actions", "part006", "examples"}

Failed(err) == [err |-> err, slots |-> <<>>]
Emit(slot) == [err |-> "", slots |-> <<slot>>]
Skip == [err |-> "", slots |-> <<>>]

\* value.(T) with the ok result tested, and without it (a panic).
castErr(variant, type) ==
    IF variant = "examples" THEN "panic"
    ELSE IF type = "bool" /\ variant # "actions" THEN "panic"
    ELSE "ErrFailedParamTypeCast"

\* One iteration of createParams' loop.
createParam(variant, param, c, io) ==
    LET go == param.value.go
        v == param.value.v
        key == lookupValue(NoPending, c, nameKey(v), io)
    IN
    CASE param.type = "string" ->
            IF go # "string" THEN Failed(castErr(variant, "string"))
            ELSE Emit(Ptr(StringBytes(v)))
      [] param.type = "bool" ->
            IF go # "bool" THEN Failed(castErr(variant, "bool"))
            ELSE Emit(Val(boolToUint64(v)))
      [] param.type = "id" ->
            IF go # "string" THEN Failed(castErr(variant, "id"))
            ELSE IF v # 1 THEN Failed("ErrParseID")
            ELSE Emit(Ptr(IDBytes(v)))
      [] param.type = "key" ->
            IF go # "string" THEN Failed(castErr(variant, "key"))
            ELSE IF notFoundOrErr(key, "ErrNamedKeyNotFound") # ""
                 THEN Failed(notFoundOrErr(key, "ErrNamedKeyNotFound"))
            ELSE Emit(Ptr(PublicKey(key)))
      [] param.type = "uint64" ->
            IF variant = "examples" THEN Skip
            ELSE IF go = "int" \/ (go = "float64" /\ variant # "part006")
                 THEN Emit(Val(v))
            ELSE Failed("ErrFailedParamTypeCast")
      [] OTHER ->
            IF variant = "examples" THEN Skip ELSE Failed("ErrInvalidParamType")

\* The loop from parameter i on, `out` being what was emitted so far; the
\* first error ends it and no list is returned.
RECURSIVE createParamsFrom(_, _, _, _, _, _)
createParamsFrom(variant, params, i, out, c, io) ==
    IF i > Len(params) THEN [err |-> "", out |-> out]
    ELSE LET res == createParam(variant, params[i], c, io) IN
         IF res.err # "" THEN [err |-> res.err, out |-> "nil"]
         ELSE createParamsFrom(variant, params, i + 1, out \o res.slots, c, io)

\* params := []uint64{programIDPtr}, or []uint64{} in the "actions" variant.
createParams(variant, programID, params, c, io) ==
    createParamsFrom(variant, params, 1,
                     IF variant = "actions" THEN <<>> ELSE <<Ptr(IDBytes(programID))>>,
                     c, io)

\* One call of createParams: the variant, the program and the parameters
\* are drawn at the start, the call fills in the result.  The store holds
\* program 1 and the key named 1; the store can fail where it is read.
StoreFails(params) ==
    IF \E i \in 1..Len(params) : params[i].type = "key" THEN BOOLEAN ELSE {FALSE}
\* The bytes of a key name's storage key, as getPublicKey and setKey build
\* them: a buffer of 1 + ed25519.PublicKeyLen zero bytes, the prefix in
\* k[0], and copy(k[1:], name), which copies as many bytes as fit.
PublicKeyLen == 32
keyBytes(name) ==
    <<keyPrefix>> \o [j \in 1..PublicKeyLen |-> IF j <= Len(name) THEN name[j] ELSE 0]

\* Key names as byte strings: n times the byte 'a', then a tail.
Repeat(n) == [j \in 1..n |-> 97]
KeyNameTails == {<<>>, <<0>>, <<98>>, <<98, 0>>}
KeyNames ==
    {Repeat(n) \o tail : n \in {1, PublicKeyLen - 1, PublicKeyLen}, tail \in KeyNameTails}

\* The branches of runCmd.Run that read step.Params, and the number of
\* params each one indexes.
StepMethods == {"key", "create", "call"}
paramsRead(method) == IF method = "call" THEN 2 ELSE 1

NoCase ==
    [kind |-> "none", variant |-> "", programID |-> Empty, params |-> <<>>,
     io |-> FALSE, done |-> FALSE, err |-> "", out |-> "nil", fee |-> 0, name |-> 0,
     closeErr |-> {}, closed |-> <<>>, names |-> <<>>, stored |-> {}, found |-> FALSE,
     step |-> 0, isNil |-> FALSE,
     max |-> Zero64, prior |-> Zero64, cfg |-> NewConfig(0), built |-> NewConfig(0)]

\* The params of a program_execute step of a plan: params[0] names the
\* program, params[1] the max fee, the rest are the function's arguments.
\* A list of fewer than two, or the two in each way the driver tells apart.
Param(type, go, v) == [type |-> type, value |-> [go |-> go, v |-> v]]
PlanParam0 ==
    {Param("id", "string", 1), Param("id", "string", 0),
     Param("string", "string", 1), Param("id", "bool", 1)}
PlanParam1 ==
    {Param("uint64", "int", 1), Param("uint64", "float64", 1),
     Param("uint64", "string", 1), Param("string", "string", 1)}
PlanStepParams ==
    {<<>>, <<Param("id", "string", 1)>>}
    \cup {<<p0, Param("uint64", "int", 1)>> \o args : p0 \in PlanParam0, args \in ParamLists}
    \cup {<<Param("id", "string", 1), p1>> \o args : p1 \in PlanParam1, args \in ParamLists}

\* intToUint64 of params[1].Value
intToUint64Err(value) == IF value.go \in {"int", "float64"} THEN "" ELSE "ErrIntToUint64"
intToUint64(value) == value.v

\* runCmd.Run, default case, up to programExecuteFunc: the error of the
\* driver's checks of params[0] and params[1].
programExecuteParamsErr(params) ==
    IF Len(params) < 2 THEN "ErrInvalidStep"
    ELSE IF params[1].type # "id" THEN "ErrInvalidParamType"
    ELSE IF params[1].value.go # "string" THEN "ErrFailedParamTypeCast"
    ELSE IF params[1].value.v # 1 THEN "ErrParseID"
    ELSE IF params[2].type # "uint64" THEN "ErrInvalidParamType"
    ELSE intToUint64Err(params[2].value)

\* runCmd.Run hands step.Params to programExecuteFunc, which hands the
\* list it was given to createParams.
programExecuteArgs(params) == params

ParamsInit ==
    /\ driver = "params"
    /\ committed = [EmptyStore EXCEPT ![nameKey(1)] = GeneratePrivateKey(0),
                                     ![programKey(1)] = 1]
    /\ pending = NoPending
    /\ programMap = [i \in {} |-> Empty]
    /\ parentID = Empty
    /\ rng = 1
    /\ pc = 0
    /\ status = "running"
    /\ \/ \E variant \in ParamVariants : \E params \in ParamLists :
            last = [NoCase EXCEPT !.kind = "createParams", !.variant = variant,
                                  !.programID = 1, !.params = params]
       \/ \E variant \in {"program", "actions"} : \E params \in PlanStepParams :
            last = [NoCase EXCEPT !.kind = "programExecute", !.variant = variant,
                                  !.params = params]
       \/ \E id \in {1, 2} :
            last = [NoCase EXCEPT !.kind = "getProgram", !.programID = id]
       \/ \E name \in {0, 1} :
            last = [NoCase EXCEPT !.kind = "hasKey", !.name = name]
       \/ last = [NoCase EXCEPT !.kind = "closer"]
       \/ \E max \in Uint64s : \E prior \in {Zero64, Uint64(MemoryPageSize)} :
            last = [NoCase EXCEPT !.kind = "WithLimitMaxMemory", !.max = max,
                                  !.prior = prior,
                                  !.cfg = WithLimitMaxMemory(NewConfig(0), prior)]
       \/ \E pages \in Uint64s : \E fee \in 0..MaxUnits :
            last = [NoCase EXCEPT !.kind = "newConfig", !.max = pages, !.fee = fee]
       \/ \E first \in KeyNames : \E second \in KeyNames :
            last = [NoCase EXCEPT !.kind = "keyNames", !.names = <<first, second>>]
       \/ \E method \in StepMethods : \E i \in {0, 1} : \E params \in ParamLists :
          \E isNil \in {FALSE, params = <<>>} :
            last = [NoCase EXCEPT !.kind = "step", !.variant = method, !.step = i,
                                  !.params = params, !.isNil = isNil]
    /\ hist = <<>>
    /\ rt = NoRuntime
    /\ twin = NoTwin

createParamsCase ==
    /\ driver = "params" /\ last.kind = "createParams" /\ ~last.done
    /\ \E io \in StoreFails(last.params) :
        LET res == createParams(last.variant, last.programID, last.params, committed, io) IN
        last' = [last EXCEPT !.io = io, !.done = TRUE, !.err = res.err, !.out = res.out]
    /\ UNCHANGED <<twin, driver, rt, committed, pending, programMap, parentID, rng, pc, status, hist>>

\* The default case of runCmd.Run for one step: the driver's checks, then
\* programExecuteFunc with maxUnits and the step's params.
programExecuteCase ==
    /\ driver = "params" /\ last.kind = "programExecute" /\ ~last.done
    /\ \E io \in StoreFails(last.params) :
        LET perr == programExecuteParamsErr(last.params) IN
        IF perr # ""
        THEN last' = [last EXCEPT !.io = io, !.done = TRUE, !.err = perr]
        ELSE LET id == last.params[1].value.v
                 res == createParams(last.variant, id, programExecuteArgs(last.params),
                                     committed, io)
             IN  last' = [last EXCEPT !.io = io, !.done = TRUE, !.programID = id,
                                      !.fee = intToUint64(last.params[2].value),
                                      !.err = res.err, !.out = res.out]
    /\ UNCHANGED <<twin, driver, rt, committed, pending, programMap, parentID, rng, pc, status, hist>>

\* callProgram up to its return after getProgram: the program of the step
\* is read from the store, which may fail.
callProgramGetProgram ==
    /\ driver = "params" /\ last.kind = "getProgram" /\ ~last.done
    /\ \E io \in BOOLEAN :
        LET v == lookupValue(NoPending, committed, programKey(last.programID), io) IN
        last' = [last EXCEPT !.io = io, !.done = TRUE,
                             !.err = notFoundOrErr(v, "ErrProgramNotFound")]
    /\ UNCHANGED <<twin, driver, rt, committed, pending, programMap, parentID, rng, pc, status, hist>>

\* deployCmd up to its return after hasKey.
deployCmdHasKey ==
    /\ driver = "params" /\ last.kind = "hasKey" /\ ~last.done
    /\ \E io \in BOOLEAN :
        LET v == lookupValue(NoPending, committed, nameKey(last.name), io) IN
        last' = [last EXCEPT !.io = io, !.done = TRUE,
                             !.err = notFoundOrErr(v, "ErrNamedKeyNotFound")]
    /\ UNCHANGED <<twin, driver, rt, committed, pending, programMap, parentID, rng, pc, status, hist>>

\* The closer that getStorage returns, run by the finalizer: the databases
\* whose Close fails are drawn; `closed` lists the Close calls made.
Databases == {"stateDB", "pdb"}
closer ==
    /\ driver = "params" /\ last.kind = "closer" /\ ~last.done
    /\ \E failing \in SUBSET Databases :
        IF "stateDB" \in failing
        THEN last' = [last EXCEPT !.closeErr = failing, !.done = TRUE,
                                  !.closed = <<"stateDB">>, !.err = "ErrCloseStateDB"]
        ELSE last' = [last EXCEPT !.closeErr = failing, !.done = TRUE,
                                  !.closed = <<"stateDB", "pdb">>,
                                  !.err = IF "pdb" \in failing THEN "ErrClosePdb" ELSE ""]
    /\ UNCHANGED <<twin, driver, rt, committed, pending, programMap, parentID, rng, pc, status, hist>>

\* newConfig of the simulator: the runtime.Config of a call, from the
\* step's max fee and the plan's max_memory_pages.
newConfig(maxFee, maxMemoryPages) ==
    WithLimitMaxMemory(NewConfig(maxFee), TimesPageSize(maxMemoryPages))

\* WithLimitMaxMemory(max) on a config, and build() of the result.
WithLimitMaxMemoryCase ==
    /\ driver = "params" /\ last.kind = "WithLimitMaxMemory" /\ ~last.done
    /\ LET c == WithLimitMaxMemory(last.cfg, last.max) IN
       last' = [last EXCEPT !.done = TRUE, !.cfg = c, !.built = build(c),
                            !.err = build(c).err]
    /\ UNCHANGED <<twin, driver, rt, committed, pending, programMap, parentID, rng, pc, status, hist>>

\* newConfig(step, config), built as runtime.New does.
newConfigCase ==
    /\ driver = "params" /\ last.kind = "newConfig" /\ ~last.done
    /\ LET c == newConfig(last.fee, last.max) IN
       last' = [last EXCEPT !.done = TRUE, !.cfg = c, !.built = build(c),
                            !.err = build(c).err]
    /\ UNCHANGED <<twin, driver, rt, committed, pending, programMap, parentID, rng, pc, status, hist>>

\* newKey(first) on a store without keys, then newKey(second): setKey and
\* Commit store the first key under its bytes; getPublicKey(second) reports
\* ok when a value is stored under the bytes of the second name, and
\* newKey then returns ErrDuplicateKeyName.
newKeyTwice ==
    /\ driver = "params" /\ last.kind = "keyNames" /\ ~last.done
    /\ LET db == {keyBytes(last.names[1])}
           ok == keyBytes(last.names[2]) \in db
       IN  last' = [last EXCEPT !.done = TRUE, !.stored = db, !.found = ok,
                                !.err = IF ok THEN "ErrDuplicateKeyName" ELSE ""]
    /\ UNCHANGED <<twin, driver, rt, committed, pending, programMap, parentID, rng, pc, status, hist>>

\* Step i of a plan with the given params, through runCmd.Init and the
\* branch of runCmd.Run for its endpoint and method, up to the call of
\* keyCreateFunc, programCreateFunc or programExecuteFunc.  Init looks at
\* the params of step 0 only, and only for nil.  The key and program_create
\* branches index step.Params[0] without a length check and assert its
\* value to be a string; the default branch checks len(step.Params) < 2.
runCmdInitErr(i, isNil) == IF i = 0 /\ isNil THEN "ErrInvalidStep" ELSE ""
firstParamErr(params) ==
    IF Len(params) = 0 THEN "PanicIndexOutOfRange"
    ELSE IF params[1].value.go # "string" THEN "ErrFailedParamTypeCast"
    ELSE ""
runCmdStepErr(method, params) ==
    IF method = "call" THEN programExecuteParamsErr(params) ELSE firstParamErr(params)
runCmdStep ==
    /\ driver = "params" /\ last.kind = "step" /\ ~last.done
    /\ LET ierr == runCmdInitErr(last.step, last.isNil) IN
       last' = [last EXCEPT !.done = TRUE,
                            !.out = IF ierr # "" THEN "init" ELSE "run",
                            !.err = IF ierr # "" THEN ierr
                                    ELSE runCmdStepErr(last.variant, last.params)]
    /\ UNCHANGED <<twin, driver, rt, committed, pending, programMap, parentID, rng, pc, status, hist>>

ParamsNext ==
    \/ runCmdStep
    \/ newKeyTwice
    \/ WithLimitMaxMemoryCase
    \/ newConfigCase
    \/ createParamsCase
    \/ programExecuteCase
    \/ callProgramGetProgram
    \/ deployCmdHasKey
    \/ closer

ParamsSpec == ParamsInit /\ [][ParamsNext]_vars

\* ------------------------------------------------------------ properties
\* A driver step was taken (as opposed to the loop ending).
StepTaken == pc' = pc + 1

\* What a step that starts now reads at a state key.
Read(k) == GetValue(pending, committed, stateKey(k))

\* C1: an execute step whose program call fails (Initialize, parameter
\* marshalling, or an error or trap of Call) leaves the committed store as
\* it was before the step.
C1_FailedCallCommitsNothing ==
    [][(/\ StepTaken
        /\ last'.kind = "call"
        /\ last'.endpoint = "execute"
        /\ last'.outcome \in {"init", "params", "trap"})
       => committed' = committed]_vars

\* C2: after an execute step whose call succeeds, every key the call wrote
\* through the state import is committed with the value written, and the
\* value a later step reads at a state key changes only when a step's call
\* writes that key, to the value written.
C2_SuccessfulWritesCommitted ==
    [][StepTaken =>
        /\ (last'.kind = "call" /\ last'.endpoint = "execute" /\ last'.outcome = "ok")
            => \A k \in StateKeys :
                  last'.writes[k] # NoChange =>
                      /\ committed'[stateKey(k)] = last'.writes[k]
                      /\ Read(k)' = last'.writes[k]
        /\ \A k \in StateKeys :
              (status' = "running" /\ Read(k)' # Read(k))
                  => last'.kind = "call" /\ last'.writes[k] = Read(k)']_vars

C2_Witness ==
    /\ driver = "steps"
    /\ Len(hist) >= 2
    /\ last.kind = "call" /\ last.outcome = "ok" /\ last.err = ""
    /\ last.writes[1] = 1
    /\ committed[stateKey(1)] = 1

\* C3: a step with endpoint readonly, whether its call succeeds or fails,
\* leaves the committed store as it was before the step.
C3_ReadOnlyNeverCommits ==
    [][(StepTaken /\ last'.endpoint = "readonly") => committed' = committed]_vars

\* The steps already executed that were a successful program_create.
CreatedSteps ==
    {i \in 0..(Len(hist) - 1) : hist[i + 1].kind = "create" /\ hist[i + 1].err = ""}

\* C4: programMap has an entry for step_N exactly when step N has been
\* executed and was a successful program_create, and an entry is never
\* removed nor bound to another ID.
C4_ProgramMapEntries ==
    /\ [](driver = "plan" => DOMAIN programMap = CreatedSteps)
    /\ [][\A i \in DOMAIN programMap :
            i \in DOMAIN programMap' /\ programMap'[i] = programMap[i]]_vars

C4_Witness ==
    /\ driver = "plan"
    /\ Len(hist) = 3
    /\ hist[1].kind = "create"
    /\ hist[2].kind = "call"
    /\ hist[3].kind = "create" /\ hist[3].err # ""
    /\ DOMAIN programMap = {0}

\* C5: the executed steps are the steps 0, 1, ... of the plan in order, each
\* started after the one before it ended without error; a step that ends
\* with an error halts the run, after which nothing changes.
C5_PrefixAndHalt ==
    /\ [](/\ Len(hist) = pc
          /\ \A j \in 1..Len(hist) :
                /\ hist[j].idx = j - 1
                /\ j < Len(hist) => hist[j].err = ""
          /\ (Len(hist) > 0 /\ hist[Len(hist)].err # "") => status \in {"failed", "panic"})
    /\ [][/\ pc' \in {pc, pc + 1}
          /\ status # "running" =>
                UNCHANGED <<committed, pending, programMap, parentID, pc, hist>>]_vars

C5_Witness ==
    /\ driver = "steps"
    /\ Len(hist) = 2
    /\ hist[1].kind = "create"
    /\ hist[2].kind = "call" /\ hist[2].err = "ErrResultAssertionFailed"
    /\ status = "failed"

\* C6: after a successful program_create (deploy) step the program bytes are
\* in the committed store, under the ID the step stored them at.
C6_DeployCommitted ==
    (last.kind = "create" /\ last.err = "")
        => committed[programKey(last.storedAt)] = last.bytes

\* C7: the ID a successful program_create returns and binds to step_i is the
\* ID the bytes were stored under: looking the program up by the ID bound to
\* step_i yields the bytes deployed at step i.
C7_BoundIDHoldsBytes ==
    (driver = "plan" /\ last.kind = "create" /\ last.err = "")
        => /\ programMap[last.idx] = last.storedAt
           /\ getProgram(pending, committed, programMap[last.idx]) = last.bytes

\* The last step resolved a program reference with getProgramID.
Resolved == driver = "plan" /\ last.kind = "call" /\ last.ref # NoRef
InMap(ref) == ref.kind = "step" /\ ref.n \in DOMAIN programMap

\* C8 as stated: a step_N token present in programMap resolves to the mapped
\* ID without parsing; any other text is parsed as an ID; when both fail the
\* step fails with ErrProgramNotFound.
C8_ResolveOrNotFound ==
    Resolved =>
        IF InMap(last.ref)
        THEN last.programID = programMap[last.ref.n] /\ last.err # "ErrParseID"
        ELSE IF FromStringOk(last.ref)
             THEN last.programID = last.ref.n /\ last.err # "ErrParseID"
             ELSE last.err = "ErrProgramNotFound"

\* C8 amended: a step_N token present in programMap resolves to the mapped
\* ID without parsing; any other text is parsed as an ID; when both fail the
\* step fails with the parse error of ids.FromString.
C8_ResolveOrParseError ==
    Resolved =>
        IF InMap(last.ref)
        THEN last.programID = programMap[last.ref.n] /\ last.err # "ErrParseID"
        ELSE IF FromStringOk(last.ref)
             THEN last.programID = last.ref.n /\ last.err # "ErrParseID"
             ELSE last.err = "ErrParseID"

C8_Witness ==
    /\ Resolved
    /\ DOMAIN programMap = {0}
    /\ last.ref = [kind |-> "step", n |-> 1]
    /\ last.err = "ErrParseID"

\* C9: a program call step does not end without error while an assertion of
\* its Require is violated by the first returned value or the fuel balance.
C9_NoSuccessWhileViolated ==
    (last.kind = "call" /\ last.outcome = "ok" /\ last.err = "") => ~last.violated

\* C10: validateAssertion(actual, assertion) is true exactly when
\* `actual operator operand` holds, and false for an unknown operator.
C10_ValidateAssertionExact ==
    last.kind = "assert" => (last.result <=> Holds(last.actual, last.assertion))

\* The key a step that starts now finds under a name.
KeyOf(name) == GetValue(pending, committed, nameKey(name))
KeyStep == StepTaken /\ last'.kind = "key" /\ last'.name \in Names

\* C11: a key step whose name already exists (newKey returns
\* ErrDuplicateKeyName) reports no error, leaves the stored key as it was and
\* the run goes on; a key step that ends with any other error halts the run.
C11_DuplicateKeyNotFatal ==
    [][ /\ (KeyStep /\ last'.keyErr = "ErrDuplicateKeyName") =>
              /\ last'.err = ""
              /\ status' = "running"
              /\ GetValue(pending', committed', nameKey(last'.name)) = KeyOf(last'.name)
        /\ (StepTaken /\ last'.kind = "key" /\ last'.err # "") => status' = "failed"
      ]_vars

C11_Witness ==
    /\ last.kind = "key" /\ last.keyErr = "ErrDuplicateKeyName"
    /\ last.err = "" /\ status = "running"
    /\ KeyOf(last.name) # NotFound

C13_EmptyPlanInvalid ==
    (last.kind = "init" /\ last.shape \in {"absent", "empty"}) =>
        /\ last.err = "ErrInvalidPlan"
        /\ status = "failed"
        /\ hist = <<>> /\ pending = NoPending

\* C14: the bytes of a plan are decoded as JSON when they parse as JSON,
\* otherwise as YAML when they parse as YAML; when they parse as neither
\* the result is ErrInvalidConfigFormat; whenever the result is an error no
\* plan is produced, and a plan that is produced is the detected format's.
C14_FormatDetection ==
    last.kind = "unmarshal" =>
        LET json == last.doc.json \in {"object", "null"}
            yaml == last.doc.yaml \in {"mapping", "null"}
        IN  /\ json => last.format = "json"
            /\ (~json /\ yaml) => last.format = "yaml"
            /\ (~json /\ ~yaml) => last.err = "ErrInvalidConfigFormat"
            /\ last.err # "" => last.shape = "none"
            /\ last.err = "" => /\ last.shape = last.doc.shape
                                /\ last.format = "json" => last.doc.jsonFits
                                /\ last.format = "yaml" => last.doc.yamlFits

C14_Witness ==
    /\ last.kind = "unmarshal"
    /\ last.doc.json = "invalid" /\ last.doc.yaml = "mapping"
    /\ last.format = "yaml" /\ last.err = "" /\ last.shape = "ok"

\* The limitMaxMemory of the runtime under test: what the harness set, and
\* the default of 18 pages when it set 0.
LimitMaxMemory ==
    IF rt.maxPages = 0 THEN 18 * MemoryPageSize ELSE rt.maxPages * MemoryPageSize

\* C15: Initialize of a module whose declared minimum memory (pages x 64 KiB)
\* is greater than limitMaxMemory fails with the error that the memory
\* minimum size exceeds the memory limits, and no instance (no memory) exists.
C15_MinimumMemoryExceedsLimit ==
    (rt.op = "Initialize" /\ rt.a * MemoryPageSize > LimitMaxMemory) =>
        /\ rt.err = "ErrMemoryMinimumExceedsLimits"
        /\ rt.state = "failed"
        /\ rt.len = 0 /\ rt.mem = <<>>

C15_Witness ==
    /\ rt.op = "Initialize" /\ rt.state = "failed"
    /\ rt.a = 2 /\ rt.maxPages = 1
    /\ rt.err = "ErrMemoryMinimumExceedsLimits"

\* C16: the memory length of an initialized runtime is a multiple of 64 KiB
\* and at most limitMaxMemory; a Grow whose result would exceed limitMaxMemory
\* fails with the failed-to-grow error and leaves the length as it was.
C16_MemoryLenWithinLimit ==
    /\ [](rt.state = "ready" =>
            /\ rt.len % MemoryPageSize = 0
            /\ rt.len > 0
            /\ rt.len <= LimitMaxMemory)
    /\ [][ (rt.state = "ready" /\ rt'.op = "Grow"
                /\ rt.len + rt'.a * MemoryPageSize > LimitMaxMemory) =>
              /\ rt'.err = "ErrFailedToGrowMemory"
              /\ rt'.len = rt.len
         ]_vars

C16_Witness ==
    /\ rt.op = "Grow" /\ rt.err = "ErrFailedToGrowMemory"
    /\ rt.a = 1 /\ rt.maxPages = 1 /\ rt.len = MemoryPageSize

\* C17: Memory.Write(offset, bytes) and Memory.Read(offset, length) fail when
\* offset plus the length exceeds the memory length, and a Write that fails
\* leaves the memory contents as they were.
C17_OutOfRangeAccessFails ==
    [][ /\ (rt.state = "ready" /\ rt'.op \in {"Write", "Read"} /\ rt'.a + rt'.b > rt.len) =>
              rt'.err # ""
        /\ (rt.state = "ready" /\ rt'.op = "Write" /\ rt'.err # "") =>
              /\ rt'.mem = rt.mem
              /\ rt'.len = rt.len
      ]_vars

C17_Witness ==
    /\ rt.op = "Write" /\ rt.err = "ErrInvalidMemorySize"
    /\ rt.a = 0 /\ rt.b = rt.len + 1
    /\ rt.mem[MemoryPageSize - 1] = 1

C20_BalanceNeverIncreases ==
    /\ [](rt.state = "ready" => (rt.balance <= rt.seed /\ rt.balance <= rt.fee))
    /\ [][ (rt.state = "ready" /\ rt'.state \in {"ready", "stopped"}) =>
              rt'.balance <= rt.balance
         ]_vars

C20_Witness ==
    /\ rt.op = "Call" /\ rt.err = ""
    /\ rt.fee = 2 /\ rt.seed = 2 /\ rt.balance = 1

\* C18: a nested program-to-program call does not commit: the writes of a
\* call that re-entered another program are committed, and read by the
\* following steps, when the outermost step is an execute step whose call
\* succeeds, and otherwise the committed store stays as it was.
C18_NestedWritesCommitWithOutermost ==
    [][(StepTaken /\ last'.kind = "call" /\ last'.nested) =>
        IF last'.endpoint = "execute" /\ last'.outcome = "ok"
        THEN \A k \in StateKeys :
                last'.writes[k] # NoChange =>
                    /\ committed'[stateKey(k)] = last'.writes[k]
                    /\ Read(k)' = last'.writes[k]
        ELSE committed' = committed]_vars

\* C21: Stop may be called any number of times, also on a runtime whose
\* Initialize failed or was never called; it reports no error, leaves the
\* runtime stopped, and a Stop of a stopped runtime leaves it as it was.
C21_StopIdempotent ==
    [][ rt'.op = "Stop" /\ rt'.stops = rt.stops + 1 =>
          /\ rt'.err = ""
          /\ rt'.state = "stopped"
          /\ rt.state = "stopped" =>
                [rt' EXCEPT !.stops = 0] = [rt EXCEPT !.stops = 0]
      ]_vars

C21_Witness ==
    /\ rt.op = "Stop" /\ rt.stops = 2 /\ rt.state = "stopped"
    /\ rt.err = "" /\ rt.len = 0 /\ rt.limit > 0

\* C22: the runtime that a call step or a ProgramExecute action made or
\* initialized has been stopped when the step returns, whether the call
\* succeeded or Initialize, the parameter marshalling or Call failed.
C22_RuntimeAlwaysStopped ==
    (last.kind = "call" /\ last.rtMade /\ last.outcome \in {"ok", "init", "params", "trap"})
        => last.rtStopped

\* The value a parameter is handed to the guest as.
SlotFor(param, slot) ==
    CASE param.type = "string" -> slot = Ptr(StringBytes(param.value.v))
      [] param.type = "bool" -> slot = Val(param.value.v)
      [] param.type = "id" -> slot = Ptr(IDBytes(param.value.v))
      [] param.type = "key" -> slot.ptr
      [] param.type = "uint64" -> slot = Val(param.value.v)
      [] OTHER -> FALSE

\* A call of createParams that returned a list.
Marshalled == driver = "params" /\ last.kind = "createParams" /\ last.done /\ last.err = ""

\* C24: createParams returns 1 + n values for n parameters: a pointer to the
\* 32 bytes of the invoked program's ID in guest memory, then one value per
\* parameter in the order of the parameters.
C24_ProgramIDThenParams ==
    Marshalled =>
        /\ Len(last.out) = 1 + Len(last.params)
        /\ last.out[1] = Ptr(IDBytes(last.programID))
        /\ \A i \in 1..Len(last.params) : SlotFor(last.params[i], last.out[i + 1])

\* C25: for a program_execute step that reaches the call, params[0] and
\* params[1] are not handed to the guest: params[1] is the meterMaxUnits of
\* the call, and the values handed to the guest are the program's ID and
\* then params[2], params[3], ... in order, one value each.
C25_DriverConsumesFirstTwo ==
    (driver = "params" /\ last.kind = "programExecute" /\ last.done /\ last.err = "") =>
        /\ last.programID = last.params[1].value.v
        /\ last.fee = last.params[2].value.v
        /\ Len(last.out) = 1 + (Len(last.params) - 2)
        /\ last.out[1] = Ptr(IDBytes(last.programID))
        /\ \A i \in 3..Len(last.params) : SlotFor(last.params[i], last.out[i - 1])

\* The Go type a value of a supported declared type has.
Supported(type) == type \in {"string", "bool", "id", "key", "uint64"}
Matches(param) ==
    CASE param.type \in {"string", "id", "key"} -> param.value.go = "string"
      [] param.type = "bool" -> param.value.go = "bool"
      [] param.type = "uint64" -> param.value.go \in {"int", "float64"}
      [] OTHER -> FALSE

\* A parameter that createParams marshals without error when the store
\* holds program 1 and key 1 and does not fail.
Marshals(param) ==
    /\ Supported(param.type) /\ Matches(param)
    /\ param.type = "uint64" => param.value.go = "int"
    /\ param.type \in {"id", "key"} => param.value.v = 1

\* C26: createParams fails with ErrInvalidParamType at a parameter whose
\* declared type is not supported and with ErrFailedParamTypeCast at a
\* parameter, of any declared type including bool, whose value is not of
\* the declared type; it returns that error (it does not panic) and no list.
C26_TypeErrorsReturned ==
    (driver = "params" /\ last.kind = "createParams" /\ last.done /\ ~last.io) =>
        \A i \in 1..Len(last.params) :
            (\A j \in 1..(i - 1) : Marshals(last.params[j])) =>
                /\ ~Supported(last.params[i].type) =>
                      last.err = "ErrInvalidParamType" /\ last.out = "nil"
                /\ (Supported(last.params[i].type) /\ ~Matches(last.params[i])) =>
                      last.err = "ErrFailedParamTypeCast" /\ last.out = "nil"

\* The place in the returned list of the value of parameter i, when every
\* parameter before it was marshalled into one value.
SlotOf(i) == IF last.variant = "actions" THEN i ELSE i + 1
OneEach(i) ==
    \A j \in 1..(i - 1) : Marshals(last.params[j]) /\ last.params[j].type # "uint64"

\* The private key stored under a name, NotFound when the name is absent.
StoredKey(name) ==
    IF nameKey(name) \in DOMAIN committed THEN committed[nameKey(name)] ELSE NotFound

\* C27: for a key-typed parameter naming a stored key the bytes written to
\* guest memory are the public key of the private key stored under the
\* name, never private-key material; for a name that is not stored
\* createParams fails with ErrNamedKeyNotFound.
C27_PublicKeyWritten ==
    (driver = "params" /\ last.kind = "createParams" /\ last.done /\ ~last.io) =>
        \A i \in 1..Len(last.params) :
            (/\ last.params[i].type = "key" /\ last.params[i].value.go = "string"
             /\ OneEach(i)) =>
                IF StoredKey(last.params[i].value.v) = NotFound
                THEN last.err = "ErrNamedKeyNotFound"
                ELSE last.err = "" =>
                        last.out[SlotOf(i)] =
                            Ptr(PublicKeyBytes(StoredKey(last.params[i].value.v)))

\* What the store holds at the key a lookup case reads.
LookedUp ==
    IF last.kind = "getProgram"
    THEN lookupValue(NoPending, committed, programKey(last.programID), FALSE)
    ELSE lookupValue(NoPending, committed, nameKey(last.name), FALSE)

\* C28: a storage error other than not-found, raised while a named key or a
\* program is looked up, is returned to the caller as that error;
\* ErrNamedKeyNotFound and ErrProgramNotFound are returned only when the
\* key is absent from the store.
C28_StorageErrorPropagates ==
    /\ (driver = "params" /\ last.kind \in {"getProgram", "hasKey"} /\ last.done) =>
          /\ last.io => last.err = "ErrStorage"
          /\ last.err \in {"ErrProgramNotFound", "ErrNamedKeyNotFound"} =>
                LookedUp = NotFound
    /\ (driver = "params" /\ last.kind = "createParams" /\ last.done) =>
          /\ (last.io /\ Len(last.params) > 0 /\ last.params[1].type = "key"
                /\ last.params[1].value.go = "string") => last.err = "ErrStorage"
          /\ last.err = "ErrNamedKeyNotFound" =>
                \E i \in 1..Len(last.params) :
                    /\ last.params[i].type = "key"
                    /\ StoredKey(last.params[i].value.v) = NotFound

\* The steps of the run so far that were a successful deploy, and the
\* latest of them.
Deployed == {j \in 1..Len(hist) : hist[j].kind = "create" /\ hist[j].err = ""}
Latest(D) == CHOOSE j \in D : \A k \in D : k <= j

\* C29: in a run file a call step whose program_id is "inherit" calls the
\* program that the most recent successful deploy step of the run stored;
\* when no deploy step has succeeded before it the call fails with
\* ErrProgramNotFound and the committed store stays as it was.
C29_InheritLatestDeploy ==
    [][(StepTaken /\ driver = "steps" /\ last'.kind = "call" /\ last'.ref.kind = "inherit") =>
        IF Deployed = {}
        THEN last'.err = "ErrProgramNotFound" /\ committed' = committed
        ELSE /\ last'.programID = hist[Latest(Deployed)].id
             /\ last'.err # "ErrProgramNotFound"]_vars

C29_Witness ==
    /\ driver = "steps" /\ Len(hist) = 3
    /\ hist[1].kind = "create" /\ hist[1].err = ""
    /\ hist[2].kind = "create" /\ hist[2].err = ""
    /\ last.kind = "call" /\ last.ref.kind = "inherit" /\ last.outcome = "ok"
    /\ last.programID = hist[2].id /\ hist[2].id # hist[1].id

\* C30: the storage closer closes the Merkle overlay first and the
\* underlying store second, and when it has run both have been closed,
\* also when closing the overlay returned an error.
C30_BothClosedInOrder ==
    (driver = "params" /\ last.kind = "closer" /\ last.done) =>
        last.closed = <<"stateDB", "pdb">>

\* C23: two runs of the same plan from the same committed store, in which
\* generateRandomID draws the same IDs, give the same response at every
\* step, end the same way and leave the same committed store.  (The second
\* run is checked against what was kept of the first.)
C23_PlanDeterminism ==
    twin.phase = "second" =>
        /\ pc >= 1 => Response(last) = twin.resps[pc]
        /\ pc = Len(twin.inputs) =>
              \/ status = "running" /\ twin.status = "done"
              \/ status = twin.status /\ committed = twin.final

C38_PagesTimesPageSizeExact ==
    (driver = "params" /\ last.kind = "newConfig" /\ last.done /\ last.max # Zero64) =>
        \/ last.built.err # ""
        \/ /\ last.max[1] = 0
           /\ last.built.limitMaxMemory = <<last.max[2], last.max[3], last.max[4], 0>>

\* C32: the response records a plan run has printed when it ends are one
\* record per executed step, in step order, and the record of a step that
\* failed carries a non-empty error.
C32_OneRecordPerStep ==
    (driver = "plan" /\ twin.phase = "off" /\ status # "running") =>
        /\ Len(Printed) = Len(hist)
        /\ \A j \in 1..Len(hist) :
              j <= Len(Printed) =>
                 /\ Printed[j].ID = hist[j].idx
                 /\ hist[j].err # "" => Printed[j].Error # ""

\* C33: a call step that ends with ErrResultAssertionFailed or
\* ErrBalanceAssertionFailed leaves the committed store as it was before
\* the step.
C33_FailedAssertionCommitsNothing ==
    [][(/\ StepTaken
        /\ last'.kind = "call"
        /\ last'.err \in {"ErrResultAssertionFailed", "ErrBalanceAssertionFailed"})
       => committed' = committed]_vars

\* C34: at the start of every step of a run file and when the run has
\* ended without error the pending-writes buffer is empty, so that a step's commit never flushes writes an earlier
\* step left behind.
C34_PendingEmptyBetweenSteps ==
    (driver # "unit" /\ status \in {"running", "done"}) => pending = NoPending

\* C35: for two different key names, creating the second after the first
\* does not fail as a duplicate, and looking the second up does not find
\* the first one's key.
C35_DistinctNamesDistinctKeys ==
    (last.kind = "keyNames" /\ last.done /\ last.names[1] # last.names[2]) =>
        ~last.found /\ last.err = ""

\* C36: a call step ends with a response or an error value, also when the
\* invoked function returns an empty result list: reading the first result
\* never crashes the driver.
C36_EmptyResultNoCrash ==
    last.kind = "call" => (status # "panic" /\ last.err # "panic")

\* C37: a step of a plan, the first or a later one, whose params list is
\* missing or shorter than its endpoint reads fails with an error, and the
\* driver does not index a parameter that does not exist.
C37_ShortParamsFail ==
    (last.kind = "step" /\ last.done /\ Len(last.params) < paramsRead(last.variant)) =>
        /\ last.err \notin {"", "PanicIndexOutOfRange"}
        /\ committed = [EmptyStore EXCEPT ![nameKey(1)] = GeneratePrivateKey(0),
                                         ![programKey(1)] = 1]

\* The units still held in the chain: by the running guest and its callers.
RECURSIVE Sum(_)
Sum(seq) == IF seq = <<>> THEN 0 ELSE Head(seq) + Sum(Tail(seq))

====
